---- MODULE Spec2Model ----
(***************************************************************************)
(* JSON-RPC over HTTP dispatcher of transport/http/jsonrpc:                *)
(* Server.ServeHTTP, Service.ServeJSONRPC, DefaultErrorEncoder and the     *)
(* error types of error.go.                                                *)
(*                                                                         *)
(* Optional Go values (nil or a value) are sequences of length 0 or 1.     *)
(***************************************************************************)
EXTENDS Integers, Sequences, FiniteSets, TLC

\* ---------------------------------------------------------------- bounds
MaxHooks == 2

\* -------------------------------------------------------- small helpers
Nil == << >>
Some(x) == << x >>
IsNil(o) == Len(o) = 0
Val(o) == o[1]

\* ------------------------------------------------------------- error.go
ParseError == -32700
InvalidRequestError == -32600
MethodNotFoundError == -32601
InvalidParamsError == -32602
InternalError == -32603

errorMessage ==
    [c \in {ParseError, InvalidRequestError, MethodNotFoundError,
            InvalidParamsError, InternalError} |->
        CASE c = ParseError -> <<"An error occurred on the server while parsing the JSON text.">>
          [] c = InvalidRequestError -> <<"The JSON sent is not a valid Request object.">>
          [] c = MethodNotFoundError -> <<"The method does not exist / is not available.">>
          [] c = InvalidParamsError -> <<"Invalid method parameter(s).">>
          [] c = InternalError -> <<"Internal JSON-RPC error.">>]

\* a Go map read of a missing key yields the zero value, the empty string
ErrorMessage(code) ==
    IF code \in DOMAIN errorMessage THEN errorMessage[code] ELSE << >>

\* An error value: its dynamic type, whether the interface holds a pointer
\* to it, its text (a sequence of string pieces) and, for the
\* handler-supplied types, the code and header keys it carries.
MkErr(typ, ptr, msg, code, hdrs) ==
    [typ |-> typ, ptr |-> ptr, msg |-> msg, code |-> code, hdrs |-> hdrs]

\* methods declared with a value receiver
ValueMethods(typ) ==
    CASE typ = "invalidRequestError" -> {"Error"}
      [] typ = "methodNotFoundError" -> {"Error", "ErrorCode"}
      [] typ = "codedError" -> {"Error", "ErrorCode"}
      [] typ = "headerError" -> {"Error", "Headers"}
      [] OTHER -> {}

\* methods declared with a pointer receiver
PointerMethods(typ) ==
    CASE typ = "invalidRequestError" -> {"ErrorCode"}
      [] typ = "errorString" -> {"Error"}
      [] OTHER -> {}

\* Go method set of the dynamic value held by an interface: a value T has
\* the value-receiver methods only, a pointer *T has both.
MethodSet(e) ==
    IF e.ptr THEN ValueMethods(e.typ) \cup PointerMethods(e.typ)
    ELSE ValueMethods(e.typ)

\* err.(ErrorCoder)
IsErrorCoder(e) == "ErrorCode" \in MethodSet(e)

\* err.(httptransport.Headerer)
IsHeaderer(e) == "Headers" \in MethodSet(e)

ErrorCode(e) ==
    CASE e.typ = "invalidRequestError" -> InvalidRequestError
      [] e.typ = "methodNotFoundError" -> MethodNotFoundError
      [] OTHER -> e.code

\* err.Error()
ErrorText(e) ==
    CASE e.typ = "invalidRequestError" -> ErrorMessage(ErrorCode(e))
      [] OTHER -> e.msg

\* invalidRequestError{} : a value, not a pointer
invalidRequestError == MkErr("invalidRequestError", FALSE, << >>, 0, {})

\* faulty variant: the message does not name the method
Sprintf_NoName(method) == <<"Method was not found.">>

\* fmt.Sprintf("Method %s was not found.", method)
Sprintf(method) == <<"Method ", method, " was not found.">>

methodNotFoundError(msg) == MkErr("methodNotFoundError", FALSE, msg, 0, {})

\* errors.New(text) : *errorString
ErrorsNew(text) == MkErr("errorString", TRUE, <<text>>, 0, {})


\* ----------------------------------------------------------- service.go
\* A hook is named by the list it is registered in and its position of
\* registration; running it stores its name in the context.
BeforeHook(i) == <<"before", i>>
AfterHook(i) == <<"after", i>>

\* func ServiceBefore(before ...RequestFunc) ServiceOption
ServiceBefore(hooks) == [opt |-> "before", hooks |-> hooks]

\* func ServiceAfter(after ...ServiceResponseFunc) ServiceOption
ServiceAfter(hooks) == [opt |-> "after", hooks |-> hooks]

\* func ServiceErrorLogger(logger log.Logger) ServiceOption
ServiceErrorLogger(logger) == [opt |-> "logger", hooks |-> <<logger>>]

\* faulty variant: hooks are put in front of the ones registered before
ApplyOption_Prepend(o, s) ==
    CASE o.opt = "before" -> [s EXCEPT !.before = o.hooks \o s.before]
      [] o.opt = "after" -> [s EXCEPT !.after = o.hooks \o s.after]
      [] o.opt = "logger" -> [s EXCEPT !.logger = o.hooks[1]]

\* option(s): the effect of one ServiceOption on the Service under
\* construction
ApplyOption(o, s) ==
    CASE o.opt = "before" -> [s EXCEPT !.before = s.before \o o.hooks]
      [] o.opt = "after" -> [s EXCEPT !.after = s.after \o o.hooks]
      [] o.opt = "logger" -> [s EXCEPT !.logger = o.hooks[1]]

RECURSIVE ApplyOptions(_, _)
ApplyOptions(options, s) ==
    IF options = << >> THEN s
    ELSE ApplyOptions(Tail(options), ApplyOption(Head(options), s))

\* func NewService(e, dec, enc, options ...ServiceOption) *Service
\* The endpoint, decoder and encoder are opaque capabilities: what they
\* return is chosen when they are called.
NewService(options) ==
    ApplyOptions(options, [before |-> << >>, after |-> << >>, logger |-> "nop"])

\* faulty variant: the configured logger is never called
Log_Dropped(logger, log, err) == log

\* s.logger.Log("err", err): the no-op logger records nothing, a
\* configured logger records the call
Log(logger, log, err) == IF logger = "nop" THEN log ELSE Append(log, err)

\* ------------------------------------------------------------ server
\* func NewServer(sm ServiceMap, options ...ServerOption) *Server
\* options is a sequence of error encoders given with ServerErrorEncoder
RECURSIVE ApplyServerOptions(_, _)
ApplyServerOptions(options, s) ==
    IF options = << >> THEN s
    ELSE ApplyServerOptions(Tail(options), [s EXCEPT !.errorEncoder = Head(options)])

NewServer(m, options) ==
    ApplyServerOptions(options, [sm |-> m, errorEncoder |-> "DefaultErrorEncoder"])

\* context.Context: the header set stored by HeaderNewContext (if any) and
\* the values stored by the hooks, oldest first
Background == [hdr |-> Nil, vals |-> << >>]
HeaderNewContext(c, h) == [c EXCEPT !.hdr = Some(h)]
HeaderFromContext(c) == c.hdr
WithValue(c, v) == [c EXCEPT !.vals = Append(c.vals, v)]

\* http.ResponseWriter: the status given to WriteHeader (0 before the
\* call), the header map and the bodies written
NewWriter == [code |-> 0, header |-> {}, body |-> << >>]
HeaderSet(w, k, v) ==
    [w EXCEPT !.header = {p \in w.header : p[1] # k} \cup {<<k, v>>}]
WriteHeader(w, code) == IF w.code = 0 THEN [w EXCEPT !.code = code] ELSE w
WriteText(w, t) ==
    [w EXCEPT !.body = Append(w.body, [kind |-> "text", text |-> t, res |-> Nil])]
WriteJSON(w, res) ==
    [w EXCEPT !.body = Append(w.body, [kind |-> "json", text |-> "", res |-> Some(res)])]

Version == "2.0"
ContentType == "application/json; charset=utf-8"
StatusOK == 200
StatusMethodNotAllowed == 405
StatusTeapot == 418
StatusInternalServerError == 500

\* The Response struct; fields not named in a literal are zero
Response(result, error, respHeaders) ==
    [JSONRPC |-> Version, Result |-> result, Error |-> error, ID |-> Nil,
     RespHeaders |-> respHeaders]

\* The members of the JSON object a Response is serialised to
WireKeys(res) ==
    {"jsonrpc"} \cup (IF IsNil(res.Result) THEN {} ELSE {"result"})
                \cup (IF IsNil(res.Error) THEN {} ELSE {"error"})

RECURSIVE SetHeaders(_, _)
SetHeaders(w, keys) ==
    IF keys = {} THEN w
    ELSE LET k == CHOOSE x \in keys : TRUE
         IN SetHeaders(HeaderSet(w, k, "from-error"), keys \ {k})

\* faulty variant: the error envelope also carries a result
DefaultErrorEncoder_WithResult(err, w) ==
    LET w1 == HeaderSet(w, "Content-Type", ContentType)
        w2 == IF IsHeaderer(err) THEN SetHeaders(w1, err.hdrs) ELSE w1
        e == [Code |-> IF IsErrorCoder(err) THEN ErrorCode(err) ELSE InternalError,
              Message |-> ErrorText(err)]
        w3 == WriteHeader(w2, StatusOK)
    IN WriteJSON(w3, Response(Some([raw |-> << >>, valid |-> TRUE]), Some(e), Nil))

\* faulty variant: the ErrorCoder of the error is not consulted
DefaultErrorEncoder_AlwaysInternal(err, w) ==
    LET w1 == HeaderSet(w, "Content-Type", ContentType)
        w2 == IF IsHeaderer(err) THEN SetHeaders(w1, err.hdrs) ELSE w1
        e == [Code |-> InternalError, Message |-> ErrorText(err)]
        w3 == WriteHeader(w2, StatusOK)
    IN WriteJSON(w3, Response(Nil, Some(e), Nil))

\* func DefaultErrorEncoder(_ context.Context, err error, w http.ResponseWriter)
DefaultErrorEncoder(err, w) ==
    LET w1 == HeaderSet(w, "Content-Type", ContentType)
        w2 == IF IsHeaderer(err) THEN SetHeaders(w1, err.hdrs) ELSE w1
        e == [Code |-> IF IsErrorCoder(err) THEN ErrorCode(err) ELSE InternalError,
              Message |-> ErrorText(err)]
        w3 == WriteHeader(w2, StatusOK)
    IN WriteJSON(w3, Response(Nil, Some(e), Nil))


\* The custom encoder of TestServerErrorEncoder:
\* func(_, err, w) { w.WriteHeader(code(err)) }
errTeapot == ErrorsNew("teapot")
CustomErrorEncoder(err, w) ==
    WriteHeader(w, IF err = errTeapot THEN StatusTeapot ELSE StatusInternalServerError)

\* faulty variant: the default encoder is called whatever encoder is installed
ErrorEncoder_AlwaysDefault(encoder, err, w) == DefaultErrorEncoder(err, w)

\* s.errorEncoder(ctx, err, w)
ErrorEncoder(encoder, err, w) ==
    IF encoder = "DefaultErrorEncoder" THEN DefaultErrorEncoder(err, w)
    ELSE CustomErrorEncoder(err, w)

\* httptransport.EncodeJSONResponse(ctx, w, res)
\* The header and the status are written first; json.Encoder.Encode
\* writes nothing when the value does not serialise.
Serialises(res) == IsNil(res.Result) \/ Val(res.Result).valid
EncodeJSONResponse(w, res) ==
    LET w1 == WriteHeader(HeaderSet(w, "Content-Type", ContentType), StatusOK)
    IN IF Serialises(res) THEN WriteJSON(w1, res) ELSE w1

\* ------------------------------------------------------------- inputs
Reqs == {"r1", "r2"}
Verbs == {"POST", "GET"}
HeaderIn == {"Content-Type"}

\* The id a client gives to the envelope of each request
RequestId == [r \in Reqs |-> IF r = "r1" THEN 1 ELSE 2]

\* An HTTP body: bytes that are not JSON, a JSON object with no method
\* member, or a JSON-RPC request envelope
Bodies(r) ==
    {[json |-> FALSE, hasMethod |-> FALSE, method |-> "", id |-> 0]}
    \cup {[json |-> TRUE, hasMethod |-> FALSE, method |-> "", id |-> RequestId[r]]}
    \cup {[json |-> TRUE, hasMethod |-> TRUE, method |-> m, id |-> RequestId[r]] :
            m \in {"add", "missing"}}

\* The structure a Request envelope must have to be decoded: its method
HasRequiredStructure(body) == body.hasMethod

\* faulty variant: the error of Decode is dropped and the zero Request kept
DecodeRequest_Lenient(body) ==
    [err |-> Nil,
     req |-> Some([Method |-> IF body.json /\ body.hasMethod THEN body.method ELSE "",
                   Params |-> <<"params">>,
                   ID |-> body.id])]

\* json.NewDecoder(r.Body).Decode(&req): an error for bytes that are not
\* JSON and for an object that is no Request envelope
DecodeRequest(body) ==
    IF ~body.json THEN [err |-> Some("syntax error"), req |-> Nil]
    ELSE IF ~HasRequiredStructure(body)
    THEN [err |-> Some("not a request"), req |-> Nil]
    ELSE [err |-> Nil,
          req |-> Some([Method |-> body.method,
                        Params |-> <<"params">>,
                        ID |-> body.id])]

\* errors the decode, invoke and encode capabilities may return: a plain
\* one (errTeapot), one that is an ErrorCoder and one that is a Headerer
errCoded == MkErr("codedError", FALSE, <<"bad params">>, InvalidParamsError, {})
errHeadered == MkErr("headerError", FALSE, <<"slow down">>, 0, {"Retry-After"})
StageErrors == {errTeapot, errCoded, errHeadered}

\* The option lists a Service is built with: nb before-hooks and na
\* after-hooks, the first of each in an option of its own and the others
\* together in a second one, then the logger if one is configured
Hook(kind, i) == IF kind = "before" THEN BeforeHook(i) ELSE AfterHook(i)
Option(kind, hooks) ==
    IF kind = "before" THEN ServiceBefore(hooks) ELSE ServiceAfter(hooks)
HookOptions(kind, n) ==
    IF n = 0 THEN << >>
    ELSE IF n = 1 THEN << Option(kind, <<Hook(kind, 1)>>) >>
    ELSE << Option(kind, <<Hook(kind, 1)>>),
            Option(kind, [i \in 1..(n - 1) |-> Hook(kind, i + 1)]) >>

ServiceOptions(nb, na, logger) ==
    HookOptions("before", nb)
    \o HookOptions("after", na)
    \o (IF logger THEN << ServiceErrorLogger("mock") >> ELSE << >>)

\* -------------------------------------------------------------- state
VARIABLES
    options,     \* the options the registered Service was built with
    server,      \* the Server: its ServiceMap sm and its errorEncoder
    pc,          \* per request: the statement it is at
    req,         \* per request: the *http.Request (verb, body, header)
    envelope,    \* per request: the decoded Request, once decoded
    ctx,         \* per request: ctx of ServeHTTP
    sctx,        \* per request: ctx of ServeJSONRPC
    reqHeaders,  \* per request: reqHeaders of ServeJSONRPC
    respHeaders, \* per request: respHeaders of ServeJSONRPC, once created
    value,       \* per request: params, request, response or paramsResp
    idx,         \* per request: position in the hook list being run
    ret,         \* per request: what ServeJSONRPC returned
    w,           \* per request: the http.ResponseWriter
    calls,       \* per request: the steps and capability calls made
    logged,      \* per request: the calls received by a configured logger
    encoded      \* per request: the calls received by the error encoder

vars == <<options, server, pc, req, envelope, ctx, sctx, reqHeaders, respHeaders,
          value, idx, ret, w, calls, logged, encoded>>

NoRequest == [verb |-> "", body |-> [json |-> FALSE, hasMethod |-> FALSE,
                                      method |-> "", id |-> 0], header |-> {}]
NoReturn == [params |-> Nil, headers |-> Nil, err |-> Nil]
\* A step or capability call: the hook called (if one), the context and
\* header set it was given and the error it returned (if one)
Call(op, hook, c, hdr, err) ==
    [op |-> op, hook |-> hook, ctx |-> c, hdr |-> hdr, err |-> err]

\* The service selected for request r
Srv(r) == server.sm[Val(envelope[r]).Method]

Init ==
    /\ \E nb \in 0..MaxHooks, na \in 0..MaxHooks, logger \in BOOLEAN :
          options = ServiceOptions(nb, na, logger)
    /\ \E serverOptions \in {<< >>, <<"custom">>} :
          server = NewServer([m \in {"add"} |-> NewService(options)], serverOptions)
    /\ pc = [r \in Reqs |-> "idle"]
    /\ req = [r \in Reqs |-> NoRequest]
    /\ envelope = [r \in Reqs |-> Nil]
    /\ ctx = [r \in Reqs |-> Background]
    /\ sctx = [r \in Reqs |-> Background]
    /\ reqHeaders = [r \in Reqs |-> ""]
    /\ respHeaders = [r \in Reqs |-> Nil]
    /\ value = [r \in Reqs |-> << >>]
    /\ idx = [r \in Reqs |-> 0]
    /\ ret = [r \in Reqs |-> NoReturn]
    /\ w = [r \in Reqs |-> NewWriter]
    /\ calls = [r \in Reqs |-> << >>]
    /\ logged = [r \in Reqs |-> << >>]
    /\ encoded = [r \in Reqs |-> << >>]

\* The HTTP server hands a request to ServeHTTP
Receive(r) ==
    /\ pc[r] = "idle"
    /\ \E v \in Verbs, b \in Bodies(r) :
          req' = [req EXCEPT ![r] = [verb |-> v, body |-> b, header |-> HeaderIn]]
    /\ pc' = [pc EXCEPT ![r] = "ServeHTTP"]
    /\ UNCHANGED <<options, server, envelope, ctx, sctx, reqHeaders, respHeaders, value,
                   idx, ret, w, calls, logged, encoded>>

\* s.errorEncoder(ctx, err, w); return
Fail(r, err) ==
    /\ w' = [w EXCEPT ![r] = ErrorEncoder(server.errorEncoder, err, @)]
    /\ encoded' = [encoded EXCEPT ![r] =
                      Append(@, [encoder |-> server.errorEncoder, err |-> err])]
    /\ pc' = [pc EXCEPT ![r] = "done"]

\* faulty variant: the verb is rejected through the error encoder
MethodNotAllowed_Encoded(r) ==
    /\ pc[r] = "ServeHTTP"
    /\ req[r].verb # "POST"
    /\ Fail(r, invalidRequestError)
    /\ UNCHANGED <<options, server, req, envelope, ctx, sctx, reqHeaders, respHeaders,
                   value, idx, ret, calls, logged>>

\* ServeHTTP: if r.Method != http.MethodPost { ... return }
MethodNotAllowed(r) ==
    /\ pc[r] = "ServeHTTP"
    /\ req[r].verb # "POST"
    /\ w' = [w EXCEPT ![r] =
                WriteText(WriteHeader(HeaderSet(@, "Content-Type",
                                                "text/plain; charset=utf-8"),
                                      StatusMethodNotAllowed),
                          "405 must POST\n")]
    /\ pc' = [pc EXCEPT ![r] = "done"]
    /\ UNCHANGED <<options, server, req, envelope, ctx, sctx, reqHeaders, respHeaders,
                   value, idx, ret, calls, logged, encoded>>

\* ServeHTTP: ctx = HeaderNewContext(ctx, r.Header); decode the body into
\* a Request; on error encode invalidRequestError{}
DecodeEnvelope(r) ==
    /\ pc[r] = "ServeHTTP"
    /\ req[r].verb = "POST"
    /\ ctx' = [ctx EXCEPT ![r] = HeaderNewContext(ctx[r], "in")]
    /\ calls' = [calls EXCEPT ![r] = Append(@, Call("envelope", Nil, ctx'[r], "", Nil))]
    /\ LET d == DecodeRequest(req[r].body)
       IN IF ~IsNil(d.err)
          THEN /\ Fail(r, invalidRequestError)
               /\ UNCHANGED envelope
          ELSE /\ envelope' = [envelope EXCEPT ![r] = d.req]
               /\ pc' = [pc EXCEPT ![r] = "lookup"]
               /\ UNCHANGED <<w, encoded>>
    /\ UNCHANGED <<options, server, req, sctx, reqHeaders, respHeaders, value, idx, ret,
                   logged>>

\* faulty variant: a miss registers an empty Service under the method
Lookup_Registers(r) ==
    /\ pc[r] = "lookup"
    /\ calls' = [calls EXCEPT ![r] = Append(@, Call("lookup", Nil, ctx[r], "", Nil))]
    /\ LET method == Val(envelope[r]).Method
       IN IF method \notin DOMAIN server.sm
          THEN /\ Fail(r, methodNotFoundError(Sprintf(method)))
               /\ server' = [server EXCEPT !.sm =
                                [m \in DOMAIN server.sm \cup {method} |->
                                    IF m \in DOMAIN server.sm THEN server.sm[m]
                                    ELSE NewService(<< >>)]]
          ELSE /\ pc' = [pc EXCEPT ![r] = "ServeJSONRPC"]
               /\ UNCHANGED <<server, w, encoded>>
    /\ UNCHANGED <<options, req, envelope, ctx, sctx, reqHeaders, respHeaders,
                   value, idx, ret, logged>>

\* ServeHTTP: srv, ok := s.sm[req.Method]; on a miss encode
\* methodNotFoundError
Lookup(r) ==
    /\ pc[r] = "lookup"
    /\ calls' = [calls EXCEPT ![r] = Append(@, Call("lookup", Nil, ctx[r], "", Nil))]
    /\ LET method == Val(envelope[r]).Method
       IN IF method \notin DOMAIN server.sm
          THEN Fail(r, methodNotFoundError(Sprintf(method)))
          ELSE /\ pc' = [pc EXCEPT ![r] = "ServeJSONRPC"]
               /\ UNCHANGED <<w, encoded>>
    /\ UNCHANGED <<options, server, req, envelope, ctx, sctx, reqHeaders, respHeaders,
                   value, idx, ret, logged>>

\* faulty variant: the loop leaves out the last hook of the list
Loop_OffByOne(hooks, i, body, after) == IF i < Len(hooks) THEN body ELSE after

\* where a hook loop goes on: to hook i of the list, or past the loop
Loop(hooks, i, body, after) == IF i <= Len(hooks) THEN body ELSE after

\* ServeJSONRPC(ctx, req.Params): reqHeaders, ok := HeaderFromContext(ctx)
EnterService(r) ==
    /\ pc[r] = "ServeJSONRPC"
    /\ sctx' = [sctx EXCEPT ![r] = ctx[r]]
    /\ value' = [value EXCEPT ![r] = Val(envelope[r]).Params]
    /\ reqHeaders' = [reqHeaders EXCEPT ![r] =
                         IF IsNil(HeaderFromContext(ctx[r])) THEN "empty"
                         ELSE Val(HeaderFromContext(ctx[r]))]
    /\ idx' = [idx EXCEPT ![r] = 1]
    /\ pc' = [pc EXCEPT ![r] = Loop(Srv(r).before, 1, "before", "dec")]
    /\ UNCHANGED <<options, server, req, envelope, ctx, respHeaders, ret, w, calls,
                   logged, encoded>>

\* for _, f := range s.before { ctx = f(ctx, reqHeaders) }
RunBefore(r) ==
    /\ pc[r] = "before"
    /\ LET f == Srv(r).before[idx[r]]
       IN /\ calls' = [calls EXCEPT ![r] =
                          Append(@, Call("before", f, sctx[r], reqHeaders[r], Nil))]
          /\ sctx' = [sctx EXCEPT ![r] = WithValue(@, f)]
    /\ idx' = [idx EXCEPT ![r] = @ + 1]
    /\ pc' = [pc EXCEPT ![r] = Loop(Srv(r).before, idx[r] + 1, "before", "dec")]
    /\ UNCHANGED <<options, server, req, envelope, ctx, reqHeaders, respHeaders, value,
                   ret, w, logged, encoded>>

\* faulty variant: the error is logged and kept but the pipeline goes on
Return_FallsThrough(r, err) ==
    /\ logged' = [logged EXCEPT ![r] = Log(Srv(r).logger, @, err)]
    /\ ret' = [ret EXCEPT ![r] = [params |-> Nil, headers |-> Nil, err |-> Some(err)]]
    /\ pc' = [pc EXCEPT ![r] = IF pc[r] = "dec" THEN "invoke"
                               ELSE IF pc[r] = "invoke" THEN "enc" ELSE "returned"]

\* faulty variant: the header set is returned together with the error
Return_KeepsHeaders(r, err) ==
    /\ logged' = [logged EXCEPT ![r] = Log(Srv(r).logger, @, err)]
    /\ ret' = [ret EXCEPT ![r] =
                  [params |-> Nil, headers |-> respHeaders[r], err |-> Some(err)]]
    /\ pc' = [pc EXCEPT ![r] = "returned"]

\* faulty variant: the failed call waits instead of returning
Return_Waits(r, err) ==
    /\ logged' = [logged EXCEPT ![r] = Log(Srv(r).logger, @, err)]
    /\ ret' = [ret EXCEPT ![r] = [params |-> Nil, headers |-> Nil, err |-> Some(err)]]
    /\ pc' = [pc EXCEPT ![r] = "waiting"]

\* if err != nil { s.logger.Log("err", err); return nil, nil, err }
Return(r, err) ==
    /\ logged' = [logged EXCEPT ![r] = Log(Srv(r).logger, @, err)]
    /\ ret' = [ret EXCEPT ![r] = [params |-> Nil, headers |-> Nil, err |-> Some(err)]]
    /\ pc' = [pc EXCEPT ![r] = "returned"]

\* faulty variant: dec is given the context ServeJSONRPC was called with
Decode_IncomingCtx(r) ==
    /\ pc[r] = "dec"
    /\ \/ \E err \in StageErrors :
             /\ calls' = [calls EXCEPT ![r] =
                             Append(@, Call("dec", Nil, ctx[r], "", Some(err)))]
             /\ Return(r, err)
             /\ UNCHANGED value
       \/ /\ calls' = [calls EXCEPT ![r] = Append(@, Call("dec", Nil, ctx[r], "", Nil))]
          /\ value' = [value EXCEPT ![r] = Append(@, "request")]
          /\ pc' = [pc EXCEPT ![r] = "invoke"]
          /\ UNCHANGED <<logged, ret>>
    /\ UNCHANGED <<options, server, req, envelope, ctx, sctx, reqHeaders, respHeaders,
                   idx, w, encoded>>

\* request, err := s.dec(ctx, params)
Decode(r) ==
    /\ pc[r] = "dec"
    /\ \/ \E err \in StageErrors :
             /\ calls' = [calls EXCEPT ![r] =
                             Append(@, Call("dec", Nil, sctx[r], "", Some(err)))]
             /\ Return(r, err)
             /\ UNCHANGED value
       \/ /\ calls' = [calls EXCEPT ![r] = Append(@, Call("dec", Nil, sctx[r], "", Nil))]
          /\ value' = [value EXCEPT ![r] = Append(@, "request")]
          /\ pc' = [pc EXCEPT ![r] = "invoke"]
          /\ UNCHANGED <<logged, ret>>
    /\ UNCHANGED <<options, server, req, envelope, ctx, sctx, reqHeaders, respHeaders,
                   idx, w, encoded>>

\* response, err := s.e(ctx, request); respHeaders := http.Header{}
Invoke(r) ==
    /\ pc[r] = "invoke"
    /\ \/ \E err \in StageErrors :
             /\ calls' = [calls EXCEPT ![r] =
                             Append(@, Call("invoke", Nil, sctx[r], "", Some(err)))]
             /\ Return(r, err)
             /\ UNCHANGED <<value, respHeaders, idx>>
       \/ /\ calls' = [calls EXCEPT ![r] =
                          Append(@, Call("invoke", Nil, sctx[r], "", Nil))]
          /\ value' = [value EXCEPT ![r] = Append(@, "response")]
          /\ respHeaders' = [respHeaders EXCEPT ![r] = Some({})]
          /\ idx' = [idx EXCEPT ![r] = 1]
          /\ pc' = [pc EXCEPT ![r] = Loop(Srv(r).after, 1, "after", "enc")]
          /\ UNCHANGED <<logged, ret>>
    /\ UNCHANGED <<options, server, req, envelope, ctx, sctx, reqHeaders, w, encoded>>

\* faulty variant: respHeaders is one header set shared by the requests
\* in flight
RunAfter_Shared(r) ==
    /\ pc[r] = "after"
    /\ LET f == Srv(r).after[idx[r]]
       IN /\ calls' = [calls EXCEPT ![r] = Append(@, Call("after", f, sctx[r], "out", Nil))]
          /\ sctx' = [sctx EXCEPT ![r] = WithValue(@, f)]
          /\ respHeaders' = [q \in Reqs |->
                                IF IsNil(respHeaders[q]) THEN respHeaders[q]
                                ELSE Some(Val(respHeaders[q]) \cup {f})]
    /\ idx' = [idx EXCEPT ![r] = @ + 1]
    /\ pc' = [pc EXCEPT ![r] = Loop(Srv(r).after, idx[r] + 1, "after", "enc")]
    /\ UNCHANGED <<options, server, req, envelope, ctx, reqHeaders, value, ret, w,
                   logged, encoded>>

\* for _, f := range s.after { ctx = f(ctx, respHeaders) }
\* An after-hook may set a header of its own on respHeaders.
RunAfter(r) ==
    /\ pc[r] = "after"
    /\ LET f == Srv(r).after[idx[r]]
       IN /\ calls' = [calls EXCEPT ![r] = Append(@, Call("after", f, sctx[r], "out", Nil))]
          /\ sctx' = [sctx EXCEPT ![r] = WithValue(@, f)]
          /\ respHeaders' = [respHeaders EXCEPT ![r] = Some(Val(@) \cup {f})]
    /\ idx' = [idx EXCEPT ![r] = @ + 1]
    /\ pc' = [pc EXCEPT ![r] = Loop(Srv(r).after, idx[r] + 1, "after", "enc")]
    /\ UNCHANGED <<options, server, req, envelope, ctx, reqHeaders, value, ret, w,
                   logged, encoded>>

\* paramsResp, err := s.enc(ctx, response); return paramsResp, respHeaders, nil
\* The bytes the encoder returns may or may not be JSON.
Encode(r) ==
    /\ pc[r] = "enc"
    /\ \/ \E err \in StageErrors :
             /\ calls' = [calls EXCEPT ![r] =
                             Append(@, Call("enc", Nil, sctx[r], "", Some(err)))]
             /\ Return(r, err)
       \/ \E valid \in BOOLEAN :
             /\ calls' = [calls EXCEPT ![r] = Append(@, Call("enc", Nil, sctx[r], "", Nil))]
             /\ ret' = [ret EXCEPT ![r] =
                           [params |-> Some([raw |-> Append(value[r], "params"),
                                             valid |-> valid]),
                            headers |-> respHeaders[r],
                            err |-> Nil]]
             /\ pc' = [pc EXCEPT ![r] = "returned"]
             /\ UNCHANGED logged
    /\ UNCHANGED <<options, server, req, envelope, ctx, sctx, reqHeaders, respHeaders,
                   value, idx, w, encoded>>

\* faulty variant: the error of the pipeline is replaced by a generic one
PipelineFailed_Replaced(r) ==
    /\ pc[r] = "returned"
    /\ ~IsNil(ret[r].err)
    /\ Fail(r, ErrorsNew("internal"))
    /\ UNCHANGED <<options, server, req, envelope, ctx, sctx, reqHeaders, respHeaders,
                   value, idx, ret, calls, logged>>

\* ServeHTTP: if err != nil { s.errorEncoder(ctx, err, w); return }
\* faulty variant: a failed pipeline is tried a second time
PipelineFailed_Retries(r) ==
    /\ pc[r] = "returned"
    /\ ~IsNil(ret[r].err)
    /\ IF Cardinality({i \in DOMAIN calls[r] : calls[r][i].op = "dec"}) < 2
       THEN /\ pc' = [pc EXCEPT ![r] = "ServeJSONRPC"]
            /\ UNCHANGED <<w, encoded>>
       ELSE Fail(r, Val(ret[r].err))
    /\ UNCHANGED <<options, server, req, envelope, ctx, sctx, reqHeaders, respHeaders,
                   value, idx, ret, calls, logged>>

PipelineFailed(r) ==
    /\ pc[r] = "returned"
    /\ req[r] # NoRequest
    /\ ~IsNil(ret[r].err)
    /\ Fail(r, Val(ret[r].err))
    /\ UNCHANGED <<options, server, req, envelope, ctx, sctx, reqHeaders, respHeaders,
                   value, idx, ret, calls, logged>>

\* faulty variant: the error EncodeJSONResponse returns is handed to the
\* error encoder
WriteSuccess_Encodes(r) ==
    /\ pc[r] = "returned"
    /\ IsNil(ret[r].err)
    /\ LET res == Response(ret[r].params, Nil, ret[r].headers)
           w1 == EncodeJSONResponse(w[r], res)
           err == ErrorsNew("json: unsupported value")
       IN IF Serialises(res)
          THEN w' = [w EXCEPT ![r] = w1] /\ UNCHANGED encoded
          ELSE /\ w' = [w EXCEPT ![r] = ErrorEncoder(server.errorEncoder, err, w1)]
               /\ encoded' = [encoded EXCEPT ![r] =
                                 Append(@, [encoder |-> server.errorEncoder, err |-> err])]
    /\ pc' = [pc EXCEPT ![r] = "done"]
    /\ UNCHANGED <<options, server, req, envelope, ctx, sctx, reqHeaders, respHeaders,
                   value, idx, ret, calls, logged>>

\* faulty variant: the id of the request is echoed in the success envelope
WriteSuccess_EchoId(r) ==
    /\ pc[r] = "returned"
    /\ IsNil(ret[r].err)
    /\ w' = [w EXCEPT ![r] =
                EncodeJSONResponse(@, [Response(ret[r].params, Nil, ret[r].headers)
                                          EXCEPT !.ID = Some(Val(envelope[r]).ID)])]
    /\ pc' = [pc EXCEPT ![r] = "done"]
    /\ UNCHANGED <<options, server, req, envelope, ctx, sctx, reqHeaders, respHeaders,
                   value, idx, ret, calls, logged, encoded>>

\* ServeHTTP: res := Response{...}; res.Result = resp;
\* httptransport.EncodeJSONResponse(ctx, w, res)
WriteSuccess(r) ==
    /\ pc[r] = "returned"
    /\ req[r] # NoRequest
    /\ IsNil(ret[r].err)
    /\ w' = [w EXCEPT ![r] =
                EncodeJSONResponse(@, Response(ret[r].params, Nil, ret[r].headers))]
    /\ pc' = [pc EXCEPT ![r] = "done"]
    /\ UNCHANGED <<options, server, req, envelope, ctx, sctx, reqHeaders, respHeaders,
                   value, idx, ret, calls, logged, encoded>>

Next ==
    \E r \in Reqs :
        \/ Receive(r)
        \/ MethodNotAllowed(r)
        \/ DecodeEnvelope(r)
        \/ Lookup(r)
        \/ EnterService(r)
        \/ RunBefore(r)
        \/ Decode(r)
        \/ Invoke(r)
        \/ RunAfter(r)
        \/ Encode(r)
        \/ PipelineFailed(r)
        \/ WriteSuccess(r)

Spec == Init /\ [][Next]_vars

\* The steps ServeHTTP takes for a request it has accepted
Step(r) ==
    \/ MethodNotAllowed(r)
    \/ DecodeEnvelope(r)
    \/ Lookup(r)
    \/ EnterService(r)
    \/ RunBefore(r)
    \/ Decode(r)
    \/ Invoke(r)
    \/ RunAfter(r)
    \/ Encode(r)
    \/ PipelineFailed(r)
    \/ WriteSuccess(r)

\* Every capability called for a request returns and the goroutine serving
\* the request keeps being scheduled
SpecFair == Init /\ [][Next]_vars /\ \A r \in Reqs : WF_vars(Step(r))

\* A Handler called by a caller other than ServeHTTP:
\* sm[m].ServeJSONRPC(ctx, params), with a context that carries the header
\* set of a request or none. No http.Request and no ResponseWriter exist;
\* envelope holds the method whose Service is called and the params.
CallService(r) ==
    /\ pc[r] = "idle"
    /\ \E c \in {Background, HeaderNewContext(Background, "in")} :
          ctx' = [ctx EXCEPT ![r] = c]
    /\ \E m \in DOMAIN server.sm :
          envelope' = [envelope EXCEPT ![r] =
                          Some([Method |-> m, Params |-> <<"params">>, ID |-> 0])]
    /\ pc' = [pc EXCEPT ![r] = "ServeJSONRPC"]
    /\ UNCHANGED <<options, server, req, sctx, reqHeaders, respHeaders, value, idx, ret,
                   w, calls, logged, encoded>>

\* ... and ServeJSONRPC returning to that caller
ServiceReturned(r) ==
    /\ pc[r] = "returned"
    /\ req[r] = NoRequest
    /\ pc' = [pc EXCEPT ![r] = "done"]
    /\ UNCHANGED <<options, server, req, envelope, ctx, sctx, reqHeaders, respHeaders,
                   value, idx, ret, w, calls, logged, encoded>>

NextDirect ==
    \/ Next
    \/ \E r \in Reqs : CallService(r)
    \/ \E r \in Reqs : ServiceReturned(r)

\* The Server, and Services that are also called directly
SpecDirect == Init /\ [][NextDirect]_vars


\* ------------------------------------------------------------- claims
Default == server.errorEncoder = "DefaultErrorEncoder"
ServiceOps == {"before", "dec", "invoke", "after", "enc"}
Ops(r) == {calls[r][i].op : i \in DOMAIN calls[r]}
Count(r, op) == Cardinality({i \in DOMAIN calls[r] : calls[r][i].op = op})
Post(r) == req[r].verb = "POST"
Done(r) == pc[r] = "done"
\* the outcome of a finished POST request
Malformed(r) == Post(r) /\ ~req[r].body.json
EnvelopeFailed(r) == Post(r) /\ ~IsNil(DecodeRequest(req[r].body).err)
Missed(r) ==
    Post(r) /\ IsNil(DecodeRequest(req[r].body).err)
    /\ Val(DecodeRequest(req[r].body).req).Method \notin DOMAIN server.sm
PipelineError(r) == ~IsNil(ret[r].err)
Succeeded(r) == "enc" \in Ops(r) /\ pc[r] \in {"returned", "done"} /\ IsNil(ret[r].err)
Failed(r) == EnvelopeFailed(r) \/ Missed(r) \/ PipelineError(r)
\* the JSON envelopes written to the response of r
Envelopes(r) ==
    {Val(w[r].body[i].res) : i \in {j \in DOMAIN w[r].body : w[r].body[j].kind = "json"}}
ErrorEnvelope(e) == WireKeys(e) \cap {"result", "error"} = {"error"}
ResultEnvelope(e) == WireKeys(e) \cap {"result", "error"} = {"result"}

\* C1 (as stated): a finished POST request under the default error encoder
\* has written exactly one envelope, holding the result and no error when
\* the pipeline succeeded and the error and no result when anything failed.
C1_AlwaysOneOfResultError ==
    \A r \in Reqs : (Done(r) /\ Post(r) /\ Default) =>
        /\ Len(w[r].body) = 1
        /\ \A e \in Envelopes(r) :
              /\ Succeeded(r) => ResultEnvelope(e)
              /\ Failed(r) => ErrorEnvelope(e)
        /\ Envelopes(r) # {}

\* C1 (amended): every envelope written holds exactly one of result and
\* error; a failure writes one error envelope; a success writes one result
\* envelope when the result serialises and no envelope at all when it does
\* not.
C1_ExactlyOneOfResultError ==
    \A r \in Reqs : (Done(r) /\ Post(r) /\ Default) =>
        /\ \A e \in Envelopes(r) : ErrorEnvelope(e) \/ ResultEnvelope(e)
        /\ Failed(r) =>
              /\ Len(w[r].body) = 1
              /\ \E e \in Envelopes(r) : ErrorEnvelope(e)
        /\ (Succeeded(r) /\ Val(ret[r].params).valid) =>
              /\ Len(w[r].body) = 1
              /\ \E e \in Envelopes(r) : ResultEnvelope(e)
        /\ (Succeeded(r) /\ ~Val(ret[r].params).valid) =>
              w[r].body = << >> /\ w[r].code = StatusOK
        /\ Succeeded(r) # Failed(r)

C1_Witness ==
    /\ Default
    /\ Done("r1") /\ Succeeded("r1") /\ \E e \in Envelopes("r1") : ResultEnvelope(e)
    /\ Done("r2") /\ PipelineError("r2") /\ \E e \in Envelopes("r2") : ErrorEnvelope(e)

\* C2: a POST request whose body is not JSON is answered, under the
\* default error encoder, with status 200 and an error of code -32600.
C2_MalformedBodyIsInvalidRequest ==
    \A r \in Reqs : (Done(r) /\ Malformed(r) /\ Default) =>
        /\ w[r].code = StatusOK
        /\ \A e \in Envelopes(r) :
              ~IsNil(e.Error) /\ Val(e.Error).Code = InvalidRequestError
        /\ Envelopes(r) # {}

\* C3: a well-formed POST request for a method that is not in the
\* ServiceMap is answered, under the default error encoder, with status
\* 200, code -32601 and a message holding the method name, and no hook,
\* decoder, endpoint or encoder of any Service is called for it.
C3_UnregisteredMethod ==
    \A r \in Reqs : (Missed(r) /\ pc[r] # "ServeHTTP") =>
        /\ Ops(r) \cap ServiceOps = {}
        /\ pc[r] \in {"lookup", "done"}
        /\ (Done(r) /\ Default) =>
              /\ w[r].code = StatusOK
              /\ Envelopes(r) # {}
              /\ \A e \in Envelopes(r) :
                    /\ ~IsNil(e.Error)
                    /\ Val(e.Error).Code = MethodNotFoundError
                    /\ \E i \in DOMAIN Val(e.Error).Message :
                          Val(e.Error).Message[i] = Val(envelope[r]).Method

C3_Witness ==
    \E r \in Reqs :
        /\ Done(r) /\ Missed(r) /\ Default
        /\ Val(envelope[r]).Method = "missing"
        /\ \E e \in Envelopes(r) : Val(e.Error).Code = MethodNotFoundError

\* C4: a request whose verb is not POST ends with a plain-text 405; its
\* body is never decoded, the ServiceMap is never consulted, no Service
\* stage runs, the error encoder is never called and no envelope is
\* written.
C4_NonPostBypasses ==
    \A r \in Reqs : (pc[r] # "idle" /\ ~Post(r)) =>
        /\ calls[r] = << >>
        /\ encoded[r] = << >>
        /\ IsNil(envelope[r])
        /\ Envelopes(r) = {}
        /\ pc[r] \in {"ServeHTTP", "done"}
        /\ Done(r) =>
              /\ w[r].code = StatusMethodNotAllowed
              /\ <<"Content-Type", "text/plain; charset=utf-8">> \in w[r].header
              /\ w[r].body = << [kind |-> "text", text |-> "405 must POST\n", res |-> Nil] >>

C4_Witness ==
    \E r \in Reqs :
        /\ Done(r) /\ req[r].verb = "GET" /\ ~Default
        /\ w[r].code = StatusMethodNotAllowed


\* the calls of one kind made for r, in the order they were made
IsBefore(c) == c.op = "before"
IsAfter(c) == c.op = "after"
BeforeCalls(r) == SelectSeq(calls[r], IsBefore)
AfterCalls(r) == SelectSeq(calls[r], IsAfter)
\* r has entered ServeJSONRPC of the registered service
InService(r) == pc[r] \in {"before", "dec", "invoke", "after", "enc"} \/ "dec" \in Ops(r)
Returned(r) == InService(r) /\ pc[r] \in {"returned", "done"}
StageCalls(r) == {i \in DOMAIN calls[r] : calls[r][i].op \in {"dec", "invoke", "enc"}}
FailedAt(r, op) ==
    \E i \in DOMAIN calls[r] : calls[r][i].op = op /\ ~IsNil(calls[r][i].err)
Range(f) == {f[i] : i \in DOMAIN f}
\* the hooks of one kind in the order the options registered them
RECURSIVE Registered(_, _)
Registered(opts, kind) ==
    IF opts = << >> THEN << >>
    ELSE (IF Head(opts).opt = kind THEN Head(opts).hooks ELSE << >>)
         \o Registered(Tail(opts), kind)
\* hooks run in registration order, once each, each given the context the
\* one before it returned
Threaded(cs, kind) ==
    /\ Len(cs) <= Len(Registered(options, kind))
    /\ \A i \in DOMAIN cs : cs[i].hook = Registered(options, kind)[i]
    /\ \A i \in 1..(Len(cs) - 1) :
          /\ cs[i + 1].ctx = WithValue(cs[i].ctx, cs[i].hook)
          /\ cs[i].hook \in Range(cs[i + 1].ctx.vals)

\* C5: within a request the before-hooks run in the order they were
\* registered, and so do the after-hooks, each exactly once, and each
\* hook is given the context returned by the hook before it.
C5_HooksInRegistrationOrder ==
    \A r \in Reqs : InService(r) =>
        /\ Threaded(BeforeCalls(r), "before")
        /\ Threaded(AfterCalls(r), "after")
        /\ "dec" \in Ops(r) =>
              Len(BeforeCalls(r)) = Len(Registered(options, "before"))
        /\ "enc" \in Ops(r) =>
              Len(AfterCalls(r)) = Len(Registered(options, "after"))

C5_Witness ==
    \E r \in Reqs :
        /\ Done(r) /\ Succeeded(r)
        /\ Len(BeforeCalls(r)) = 2 /\ Len(AfterCalls(r)) = 2

\* C6: a failing decode, invoke or encode is the last thing the pipeline
\* does: after a failed decode no invoke, after-hook or encode runs, after
\* a failed invoke no after-hook or encode runs, and after a failed encode
\* nothing runs.
C6_FailureShortCircuits ==
    \A r \in Reqs :
        /\ \A i \in StageCalls(r) :
              ~IsNil(calls[r][i].err) =>
                  /\ i = Len(calls[r])
                  /\ pc[r] \in {"returned", "done"}
        /\ FailedAt(r, "dec") => Ops(r) \cap {"invoke", "after", "enc"} = {}
        /\ FailedAt(r, "invoke") => Ops(r) \cap {"after", "enc"} = {}

C6_Witness ==
    /\ Done("r1") /\ FailedAt("r1", "dec")
    /\ Done("r2") /\ FailedAt("r2", "invoke")
    /\ Len(server.sm["add"].before) = 2 /\ Len(server.sm["add"].after) = 2
    /\ Len(BeforeCalls("r1")) = 2

C8_FailureSurfacedUnmodified ==
    \A r \in Reqs :
        /\ Len(encoded[r]) <= 1
        /\ \A op \in {"dec", "invoke", "enc"} : Count(r, op) <= 1
        /\ (Done(r) /\ Returned(r) /\ PipelineError(r)) =>
              /\ \E i \in StageCalls(r) :
                    /\ i = Len(calls[r])
                    /\ ~IsNil(calls[r][i].err)
                    /\ encoded[r] = << [encoder |-> server.errorEncoder,
                                        err |-> Val(calls[r][i].err)] >>
        /\ \A i \in StageCalls(r) :
              (Done(r) /\ ~IsNil(calls[r][i].err)) =>
                  /\ Len(encoded[r]) = 1
                  /\ encoded[r][1].err = Val(calls[r][i].err)

C8_Witness ==
    /\ Done("r1") /\ FailedAt("r1", "dec") /\ encoded["r1"][1].err = errTeapot
    /\ Done("r2") /\ FailedAt("r2", "enc") /\ encoded["r2"][1].err = errHeadered

\* C9: ServeJSONRPC returns the bytes of the encoder, the outbound header
\* set given to the after-hooks and no error when every stage succeeded,
\* and the error of the failing stage with no bytes and no header set
\* otherwise; it never returns bytes together with an error.
C9_ServiceReturn ==
    \A r \in Reqs : Returned(r) =>
        LET last == calls[r][Len(calls[r])]
        IN /\ last.op \in {"dec", "invoke", "enc"}
           /\ IsNil(ret[r].params) \/ IsNil(ret[r].err)
           /\ IsNil(last.err) =>
                 /\ last.op = "enc"
                 /\ IsNil(ret[r].err)
                 /\ ~IsNil(ret[r].params)
                 /\ Val(ret[r].params).raw = <<"params", "request", "response", "params">>
                 /\ ~IsNil(ret[r].headers)
                 /\ Val(ret[r].headers) =
                        {AfterCalls(r)[i].hook : i \in DOMAIN AfterCalls(r)}
                 /\ \A i \in DOMAIN AfterCalls(r) : AfterCalls(r)[i].hdr = "out"
           /\ ~IsNil(last.err) =>
                 ret[r] = [params |-> Nil, headers |-> Nil, err |-> last.err]

C9_Witness ==
    /\ Returned("r1") /\ Succeeded("r1") /\ Len(AfterCalls("r1")) = 2
    /\ Cardinality(Val(ret["r1"].headers)) = 2
    /\ Returned("r2") /\ FailedAt("r2", "enc") /\ Len(AfterCalls("r2")) = 2

\* C10: a logger configured on a Service is called exactly once for a
\* request whose pipeline fails at decode, invoke or encode, with the
\* error, and not at all for a request whose pipeline succeeds.
C10_LoggedOncePerFailure ==
    \A r \in Reqs : (InService(r) /\ Srv(r).logger # "nop") =>
        /\ Len(logged[r]) <= 1
        /\ Returned(r) =>
              /\ PipelineError(r) => logged[r] = << Val(ret[r].err) >>
              /\ Succeeded(r) => logged[r] = << >>
              /\ (FailedAt(r, "dec") \/ FailedAt(r, "invoke") \/ FailedAt(r, "enc"))
                     => Len(logged[r]) = 1
        /\ ~Returned(r) => logged[r] = << >>

C10_Witness ==
    /\ server.sm["add"].logger = "mock"
    /\ Done("r1") /\ FailedAt("r1", "dec") /\ Len(logged["r1"]) = 1
    /\ Done("r2") /\ Succeeded("r2") /\ Len(logged["r2"]) = 0

\* C11 (as stated): under the custom error encoder every failure is
\* handled by that encoder alone, a pipeline failing with errTeapot is
\* answered with status 418 and every other request with status 200.
C11_TeapotElse200 ==
    \A r \in Reqs : (Done(r) /\ Post(r) /\ ~Default) =>
        /\ Failed(r) =>
              /\ Len(encoded[r]) = 1 /\ encoded[r][1].encoder = "custom"
              /\ w[r].body = << >>
        /\ w[r].code = IF PipelineError(r) /\ Val(ret[r].err) = errTeapot
                       THEN StatusTeapot ELSE StatusOK

\* C11 (amended): under the custom error encoder every failure is handled
\* by that encoder alone and no envelope is written; a failure with
\* errTeapot is answered with status 418, a failure with any other error
\* with the status the encoder gives it (500), and a success with 200.
C11_CustomEncoderAlone ==
    \A r \in Reqs : (Done(r) /\ Post(r) /\ ~Default) =>
        /\ Failed(r) =>
              /\ Len(encoded[r]) = 1 /\ encoded[r][1].encoder = "custom"
              /\ w[r].body = << >> /\ w[r].header = {}
              /\ w[r].code = IF encoded[r][1].err = errTeapot
                             THEN StatusTeapot ELSE StatusInternalServerError
              /\ PipelineError(r) => encoded[r][1].err = Val(ret[r].err)
        /\ Succeeded(r) => encoded[r] = << >> /\ w[r].code = StatusOK

C11_Witness ==
    /\ ~Default
    /\ Done("r1") /\ FailedAt("r1", "invoke") /\ w["r1"].code = StatusTeapot
    /\ Done("r2") /\ Succeeded("r2") /\ w["r2"].code = StatusOK

C13_RegistryUnchanged == [][server' = server]_vars

C13_Witness ==
    /\ Done("r1") /\ Missed("r1") /\ Len(encoded["r1"]) = 1
    /\ Done("r2") /\ Succeeded("r2")
    /\ DOMAIN server.sm = {"add"}
    /\ server.sm["add"] = NewService(options)

\* everything request r owns
Local(r) ==
    <<pc[r], req[r], envelope[r], ctx[r], sctx[r], reqHeaders[r], respHeaders[r],
      value[r], idx[r], ret[r], w[r], calls[r], logged[r], encoded[r]>>
\* the stage at which the pipeline of r failed, "" if at none
FailPoint(r) ==
    IF calls[r] # << >> /\ ~IsNil(calls[r][Len(calls[r])].err)
    THEN calls[r][Len(calls[r])].op ELSE ""
\* what a request with the input and the capability results of r does when
\* it is the only request: its steps, in order
SoloOps(r) ==
    LET nb == Len(Registered(options, "before"))
        na == Len(Registered(options, "after"))
        fail == FailPoint(r)
    IN IF ~Post(r) THEN << >>
       ELSE IF EnvelopeFailed(r) THEN <<"envelope">>
       ELSE IF Missed(r) THEN <<"envelope", "lookup">>
       ELSE <<"envelope", "lookup">> \o [i \in 1..nb |-> "before"] \o <<"dec">>
            \o (IF fail = "dec" THEN << >>
                ELSE <<"invoke">>
                     \o (IF fail = "invoke" THEN << >>
                         ELSE [i \in 1..na |-> "after"] \o <<"enc">>))
\* ... the context each of these steps is given
SoloCtx(r, i) ==
    LET hooks == SelectSeq([j \in 1..(i - 1) |-> calls[r][j].hook], LAMBDA h : h # Nil)
    IN [hdr |-> Some("in"), vals |-> hooks]
\* ... and its response
SoloResponse(r) ==
    IF ~Post(r)
    THEN [code |-> StatusMethodNotAllowed,
          header |-> {<<"Content-Type", "text/plain; charset=utf-8">>},
          body |-> << [kind |-> "text", text |-> "405 must POST\n", res |-> Nil] >>]
    ELSE IF EnvelopeFailed(r)
    THEN ErrorEncoder(server.errorEncoder, invalidRequestError, NewWriter)
    ELSE IF Missed(r)
    THEN ErrorEncoder(server.errorEncoder,
                      methodNotFoundError(Sprintf(req[r].body.method)), NewWriter)
    ELSE IF FailPoint(r) # ""
    THEN ErrorEncoder(server.errorEncoder, Val(calls[r][Len(calls[r])].err), NewWriter)
    ELSE EncodeJSONResponse(NewWriter,
             Response(ret[r].params, Nil, Some(Range(Registered(options, "after")))))

\* C14: whatever the interleaving, a step of one request changes nothing
\* another request owns and nothing of the Server, and a finished request
\* has made the steps, seen the contexts and header sets and written the
\* response it makes, sees and writes when it is handled alone.
C14_RequestsIndependent ==
    /\ [](\A r \in Reqs : Done(r) =>
             /\ [i \in DOMAIN calls[r] |-> calls[r][i].op] = SoloOps(r)
             /\ \A i \in DOMAIN calls[r] :
                   /\ calls[r][i].ctx = SoloCtx(r, i)
                   /\ calls[r][i].op = "before" => calls[r][i].hdr = "in"
                   /\ calls[r][i].op = "after" => calls[r][i].hdr = "out"
             /\ Succeeded(r) =>
                   ret[r].headers = Some(Range(Registered(options, "after")))
             /\ w[r] = SoloResponse(r))
    /\ [][/\ server' = server
          /\ \E r \in Reqs : \A q \in Reqs \ {r} : Local(q)' = Local(q)]_vars

C14_Witness ==
    /\ pc["r1"] = "after" /\ idx["r1"] = 2
    /\ pc["r2"] = "after" /\ idx["r2"] = 1
    /\ Len(calls["r2"]) < Len(calls["r1"])

\* the pipeline of r succeeded and its success envelope does not serialise
SerialisationFailed(r) ==
    /\ Succeeded(r)
    /\ ~Serialises(Response(ret[r].params, Nil, ret[r].headers))

\* C15: when the success envelope of a request whose pipeline succeeded does
\* not serialise, the error encoder is not invoked for the request, no
\* envelope at all is written after the failed write, and the finished
\* response is never written again.
C15_NoSecondWrite ==
    /\ [](\A r \in Reqs : Done(r) /\ SerialisationFailed(r) =>
             /\ encoded[r] = << >>
             /\ w[r].body = << >>
             /\ w[r].code = StatusOK)
    /\ [][\A r \in Reqs : Done(r) => w'[r] = w[r] /\ encoded'[r] = encoded[r]]_vars

C15_Witness ==
    /\ Done("r1") /\ SerialisationFailed("r1")
    /\ w["r1"].code = StatusOK /\ w["r1"].body = << >>

\* the terminal outcomes the response of r shows
Writes405(r) ==
    {i \in DOMAIN w[r].body : w[r].body[i].kind = "text"}
SuccessWrites(r) ==
    {i \in DOMAIN w[r].body :
        w[r].body[i].kind = "json" /\ ResultEnvelope(Val(w[r].body[i].res))}
Outcomes(r) ==
    {o \in {"405", "error", "success"} :
        \/ o = "405" /\ Writes405(r) # {}
        \/ o = "error" /\ encoded[r] # << >>
        \/ o = "success" /\ SuccessWrites(r) # {}}
\* each stage of the dispatcher and of the Service ran at most once for r
EachStageOnce(r) ==
    \A op \in {"envelope", "lookup", "dec", "invoke", "enc"} : Count(r, op) <= 1
OutcomeOnce(r) ==
    /\ Cardinality(Writes405(r)) <= 1
    /\ Len(encoded[r]) <= 1
    /\ Cardinality(SuccessWrites(r)) <= 1

\* C16 as stated: each of envelope decode, lookup, decode, invoke and
\* encode runs at most once for a request, and a finished request shows
\* exactly one of the outcomes 405, error encoder invoked once, success
\* envelope written once.
C16_ExactlyOneOutcome ==
    \A r \in Reqs :
        /\ EachStageOnce(r)
        /\ OutcomeOnce(r)
        /\ Done(r) => Cardinality(Outcomes(r)) = 1

\* C16, amended: each stage runs at most once and no outcome happens twice;
\* a request that is not finished shows no outcome; a finished request
\* shows exactly one of the three outcomes, except that a request whose
\* success envelope does not serialise shows none of them: status 200 is
\* sent with an empty body and the error encoder is not invoked.
C16_NoRetryOneOutcome ==
    \A r \in Reqs :
        /\ EachStageOnce(r)
        /\ OutcomeOnce(r)
        /\ ~Done(r) => Outcomes(r) = {}
        /\ Done(r) /\ ~SerialisationFailed(r) => Cardinality(Outcomes(r)) = 1
        /\ Done(r) /\ SerialisationFailed(r) =>
              /\ Outcomes(r) = {}
              /\ w[r].code = StatusOK
              /\ w[r].body = << >>
        /\ Done(r) =>
              /\ "405" \in Outcomes(r) <=> ~Post(r)
              /\ "error" \in Outcomes(r) <=> Post(r) /\ Failed(r)
              /\ "success" \in Outcomes(r) <=>
                    Post(r) /\ Succeeded(r) /\ ~SerialisationFailed(r)

C16_Witness ==
    /\ Done("r1") /\ Outcomes("r1") = {"error"} /\ FailPoint("r1") = "enc"
    /\ Done("r2") /\ Outcomes("r2") = {"success"}

\* requests q and r differ in their id at most, and their capabilities
\* returned the same
SameButId(q, r) ==
    /\ req[q].verb = req[r].verb
    /\ req[q].header = req[r].header
    /\ [req[q].body EXCEPT !.id = 0] = [req[r].body EXCEPT !.id = 0]
    /\ [i \in DOMAIN calls[q] |-> calls[q][i].err]
          = [i \in DOMAIN calls[r] |-> calls[r][i].err]
    /\ ret[q] = ret[r]

\* C17: no envelope written carries an id, and two finished requests that
\* differ only in their id have been answered with the same status, the
\* same header set and the same body.
C17_ResponseIgnoresId ==
    /\ \A r \in Reqs : \A e \in Envelopes(r) : IsNil(e.ID)
    /\ \A q, r \in Reqs : Done(q) /\ Done(r) /\ SameButId(q, r) => w[q] = w[r]

C17_Witness ==
    /\ Done("r1") /\ Done("r2")
    /\ Succeeded("r1") /\ Succeeded("r2") /\ SuccessWrites("r1") # {}
    /\ SameButId("r1", "r2")
    /\ req["r1"].body.id # req["r2"].body.id
    /\ Val(envelope["r1"]).ID # Val(envelope["r2"]).ID
    /\ w["r1"] = w["r2"]

\* the calls of one kind made for r, in order
OfOp(r, op) == SelectSeq(calls[r], LAMBDA c : c.op = op)
\* the context a hook call returned
Returned_ctx(c) == WithValue(c.ctx, c.hook)
\* the header set ServeJSONRPC finds in the context it is called with
Inbound(r) ==
    IF IsNil(HeaderFromContext(ctx[r])) THEN "empty" ELSE Val(HeaderFromContext(ctx[r]))
\* the context returned by the last before-hook, the incoming context when
\* no before-hook ran
AfterBefore(r) ==
    LET bs == OfOp(r, "before")
    IN IF bs = << >> THEN ctx[r] ELSE Returned_ctx(bs[Len(bs)])
\* the context returned by the last after-hook
AfterAfter(r) ==
    LET as == OfOp(r, "after")
    IN IF as = << >> THEN AfterBefore(r) ELSE Returned_ctx(as[Len(as)])

\* C18: in ServeJSONRPC every before-hook is given the header set the
\* context carries (the inbound set the dispatcher captured, an empty set
\* when the context carries none) and the context the previous hook
\* returned; dec and invoke are given the context the last before-hook
\* returned, and so is the first after-hook; every after-hook is given the
\* same outbound header set, which starts empty, holds only what the
\* after-hooks of this request put in it and is not the inbound set; enc
\* is given the context the last after-hook returned.
C18_ContextAndHeaderThreading ==
    \A r \in Reqs : InService(r) \/ Returned(r) =>
        /\ \A i \in DOMAIN OfOp(r, "before") :
              /\ OfOp(r, "before")[i].hdr = Inbound(r)
              /\ req[r] # NoRequest => OfOp(r, "before")[i].hdr = "in"
              /\ OfOp(r, "before")[i].ctx =
                    IF i = 1 THEN ctx[r] ELSE Returned_ctx(OfOp(r, "before")[i - 1])
        /\ \A c \in Range(OfOp(r, "dec")) \cup Range(OfOp(r, "invoke")) :
              c.ctx = AfterBefore(r)
        /\ \A i \in DOMAIN OfOp(r, "after") :
              /\ OfOp(r, "after")[i].hdr = "out"
              /\ OfOp(r, "after")[i].hdr # Inbound(r)
              /\ OfOp(r, "after")[i].ctx =
                    IF i = 1 THEN AfterBefore(r)
                    ELSE Returned_ctx(OfOp(r, "after")[i - 1])
        /\ pc[r] \in {"after", "enc"} =>
              respHeaders[r] = Some({c.hook : c \in Range(OfOp(r, "after"))})
        /\ \A c \in Range(OfOp(r, "enc")) : c.ctx = AfterAfter(r)

C18_Witness ==
    /\ Done("r1") /\ req["r1"] = NoRequest /\ IsNil(HeaderFromContext(ctx["r1"]))
    /\ Len(OfOp("r1", "before")) = 2 /\ OfOp("r1", "before")[2].hdr = "empty"
    /\ Len(OfOp("r1", "after")) = 2 /\ Len(OfOp("r1", "enc")) = 1
    /\ Done("r2") /\ Succeeded("r2") /\ req["r2"] # NoRequest
    /\ OfOp("r2", "before")[1].hdr = "in"

\* the hooks of one kind called for r, in call order
HooksRun(r, op) == [i \in DOMAIN OfOp(r, op) |-> OfOp(r, op)[i].hook]
\* the position in calls[r] of the call of a stage, 0 if it was not called
At(r, op) ==
    IF \E i \in DOMAIN calls[r] : calls[r][i].op = op
    THEN CHOOSE i \in DOMAIN calls[r] : calls[r][i].op = op ELSE 0

\* C19: for a POST request that resolved to a registered Service, once dec
\* has been attempted every registered before-hook has run, all of them
\* before dec, whether dec, invoke or enc then fails or not; when
\* ServeJSONRPC has returned, every registered after-hook has run if dec and
\* invoke both succeeded and none has run otherwise, and all of them ran
\* before enc; when enc failed, the header set the after-hooks populated is
\* not returned and the error response is the one written for the error
\* alone.
C19_HooksAndFailures ==
    \A r \in Reqs : Post(r) /\ InService(r) =>
        /\ At(r, "dec") # 0 =>
              /\ HooksRun(r, "before") = Registered(options, "before")
              /\ \A i \in DOMAIN calls[r] :
                    calls[r][i].op = "before" => i < At(r, "dec")
        /\ Returned(r) =>
              /\ HooksRun(r, "after") =
                    IF FailedAt(r, "dec") \/ FailedAt(r, "invoke") THEN << >>
                    ELSE Registered(options, "after")
              /\ \A i \in DOMAIN calls[r] :
                    calls[r][i].op = "after" =>
                        /\ At(r, "invoke") < i
                        /\ i < At(r, "enc")
        /\ Returned(r) /\ FailedAt(r, "enc") =>
              /\ HooksRun(r, "after") = Registered(options, "after")
              /\ respHeaders[r] = Some(Range(Registered(options, "after")))
              /\ IsNil(ret[r].headers)
              /\ Done(r) =>
                    w[r] = ErrorEncoder(server.errorEncoder, Val(ret[r].err), NewWriter)

C19_Witness ==
    /\ Done("r1") /\ Post("r1") /\ FailedAt("r1", "enc")
    /\ Len(HooksRun("r1", "before")) = 2 /\ Len(HooksRun("r1", "after")) = 2
    /\ Cardinality(Val(respHeaders["r1"])) = 2 /\ IsNil(ret["r1"].headers)
    /\ Done("r2") /\ Post("r2") /\ FailedAt("r2", "dec")
    /\ Len(HooksRun("r2", "before")) = 2 /\ HooksRun("r2", "after") = << >>

\* the steps of one pass over the stages: envelope decode, lookup, every
\* before-hook, dec, invoke, every after-hook, enc
OnePass ==
    2 + Len(Registered(options, "before")) + 2 + Len(Registered(options, "after")) + 1

\* C20 as stated: when every capability returns, a request ServeHTTP
\* accepted reaches one of the outcomes 405, error encoded, success written.
C20_ReachesOutcome ==
    \A r \in Reqs : (pc[r] = "ServeHTTP") ~> (Done(r) /\ Outcomes(r) # {})

\* C20, amended: when every capability returns, a request ServeHTTP
\* accepted finishes, with one of the outcomes 405, error encoded, success
\* written, or, when its success envelope does not serialise, with status
\* 200 and an empty body; it has made at most the calls of one pass over the
\* stages, and a finished request takes no further step.
C20_Terminates ==
    /\ \A r \in Reqs :
          (pc[r] = "ServeHTTP") ~>
              (Done(r) /\ (Outcomes(r) # {} \/ SerialisationFailed(r)))
    /\ [](\A r \in Reqs : Len(calls[r]) <= OnePass)
    /\ [][\A r \in Reqs : Done(r) => Local(r)' = Local(r)]_vars

C20_Witness ==
    /\ Done("r1") /\ Succeeded("r1") /\ Len(calls["r1"]) = OnePass /\ OnePass = 9
    /\ Done("r2") /\ ~Post("r2")

====
